---------------------------- MODULE Spec2Model ----------------------------
(***************************************************************************)
(* A model of the binding and round-trip pipeline of AMS:                  *)
(*   - Model.idx2uid / Model._one_idx2uid / Model.get   (ams/core/model.py)*)
(*   - RParam                                           (ams/core/param.py)*)
(*   - MatProcessor.make                          (ams/core/matprocessor.py)*)
(*   - ACOPFBase / DCPFlowBase solve, unpack, run (ams/routines/*.py)      *)
(*                                                                         *)
(* Python values are tagged records, so that None, numbers, strings and    *)
(* lists can live in one sequence:                                         *)
(*   [t |-> "none"]               None                                     *)
(*   [t |-> "int",   v |-> n]     the int n                                *)
(*   [t |-> "float", v |-> n]     the float n/10                           *)
(*   [t |-> "str",   v |-> n]     the n-th string                          *)
(*   [t |-> "list",  items |-> s] a list (or ndarray) of values            *)
(*   [t |-> "obj"]                any other object                         *)
(***************************************************************************)
EXTENDS Integers, Sequences, FiniteSets, TLC

VARIABLES
    dev,        \* SpecIdx: one Device Collection (class_name, idx, store, p)
    arg,        \* SpecIdx: the arguments of the accessor calls
    call,       \* SpecIdx: the last accessor call and its outcome
    net,        \* SpecMat: the Bus identifiers and the bus of each StaticGen
    mat,        \* SpecMat: what MatProcessor.make returned
    gen,        \* SpecUC: the PV generators (u, c2, c1, c0, Sn), in idx order
    uc,         \* SpecUC: the calls made on the UC routine and what they left
    heap,       \* the array objects, by identity (position in this sequence)
    attr,       \* <<collection, attribute>> -> the array object bound to .v
    shadow,     \* <<collection, attribute>> -> the values last written to it
    decl,       \* routine -> its declared Routine Variables, in order
    is_setup,   \* routine -> setup() has run
    exit_code,  \* routine -> None, or the exit code of its last run
    exec_time,  \* routine -> None, or the time of its last run
    rvar,       \* routine -> [variable name -> None or its value]
    objv,       \* routine -> None, or the objective value (obj.v)
    recent,     \* system.recent: None or the routine unpacked last
    pc,         \* where the running run() stands; "idle" when none runs
    cur,        \* the routine whose run() is executing
    res,        \* what solve() returned to the running run()
    vk,         \* unpack: the next declared variable to visit
    log,        \* the steps the last run() has taken, in order
    pre,        \* attr as it was when the running run() began
    outcome     \* how the last run() ended: returned value or exception

idxvars == <<dev, arg, call>>

matvars == <<net, mat>>

ucvars == <<gen, uc>>

sysvars == <<heap, attr, shadow, decl, is_setup, exit_code, exec_time, rvar,
             objv, recent, pc, cur, res, vk, log, pre, outcome>>

vars == <<idxvars, matvars, ucvars, sysvars>>

-----------------------------------------------------------------------------
(* Bounds *)

\* longest identifier sequence handed to idx2uid / get
MaxLen == 2

\* most devices registered in one collection
MaxDev == 3

\* most generators of the StaticGen group
MaxGen == 2

\* lines (rows) of the PTDF
NLine == 2

\* devices of the system the routines run on
NBus == 2

NSlack == 1

NPV == 1

\* distinct results the solver can return
MaxSeed == 2

-----------------------------------------------------------------------------
(* Python values *)

None == [t |-> "none"]

PyInt(n) == [t |-> "int", v |-> n]

PyFloat(n) == [t |-> "float", v |-> n]

PyStr(n) == [t |-> "str", v |-> n]

PyList(s) == [t |-> "list", items |-> s]

PyObj == [t |-> "obj"]

IsList(x) == x.t = "list"

\* isinstance(idx, (float, int, str, np.integer, np.floating))
IsScalar(x) == x.t \in {"int", "float", "str"}

\* Python's == and hash on dictionary keys: 1 == 1.0, so an integral float
\* and the int of the same value are one key.
Key(x) == IF x.t = "float" /\ x.v % 10 = 0 THEN PyInt(x.v \div 10) ELSE x

\* outcomes of a call: a returned value or a raised exception
Ok(v) == [ok |-> TRUE, val |-> v]

Raise(e, cls, x) == [ok |-> FALSE, err |-> e, cls |-> cls, idx |-> x]

\* the first raised outcome of a sequence of outcomes (a list comprehension
\* stops at the first element that raises), or the list of values
Collect(outs) ==
    LET bad == {k \in 1..Len(outs) : ~outs[k].ok}
    IN  IF bad = {}
        THEN Ok(PyList([k \in 1..Len(outs) |-> outs[k].val]))
        ELSE outs[CHOOSE k \in bad : \A j \in bad : k <= j]

-----------------------------------------------------------------------------
(* Identifier Index *)

\* self.uid: identifier -> dense position, in registration order
InUid(m, x) == \E k \in 1..Len(m.idx) : Key(m.idx[k]) = Key(x)

UidOf(m, x) == (CHOOSE k \in 1..Len(m.idx) : Key(m.idx[k]) = Key(x)) - 1

\* mutant of one_idx2uid: self.uid.get(idx), None for an unknown identifier
one_idx2uid_NoRaise(m, x) ==
    IF IsList(x) \/ x.t = "obj" THEN Raise("TypeError", m.class_name, x)
    ELSE IF ~InUid(m, x) THEN Ok(None)
    ELSE Ok(PyInt(UidOf(m, x)))

\* A list element is unhashable: `idx not in self.uid` raises TypeError.
one_idx2uid(m, x) ==
    IF IsList(x) \/ x.t = "obj" THEN Raise("TypeError", m.class_name, x)
    ELSE IF ~InUid(m, x) THEN Raise("KeyError", m.class_name, x)
    ELSE Ok(PyInt(UidOf(m, x)))

\* andes.utils.func.list_flatten: reduce(operator.iconcat, input_list, [])
RECURSIVE FlattenFrom(_, _)
FlattenFrom(s, k) ==
    IF k > Len(s) THEN Ok(<<>>)
    ELSE IF ~IsList(s[k]) THEN Raise("TypeError", "list_flatten", s[k])
    ELSE LET rest == FlattenFrom(s, k + 1)
         IN  IF rest.ok THEN Ok(s[k].items \o rest.val) ELSE rest

list_flatten(s) ==
    IF Len(s) > 0 /\ IsList(s[1]) THEN FlattenFrom(s, 1) ELSE Ok(s)

\* mutant of idx2uidSeq: the positions of the distinct identifiers, sorted
\* (resolving through a set), so repeats and the input order are lost
idx2uidSeq_Set(m, s) ==
    LET outs == [k \in 1..Len(s) |->
                    IF s[k] = None THEN Ok(None) ELSE one_idx2uid(m, s[k])]
        all  == Collect(outs)
        pos  == {outs[k].val.v : k \in {j \in 1..Len(s) : outs[j].val # None}}
        Rank(x) == Cardinality({y \in pos : y < x}) + 1
    IN  IF ~all.ok \/ (\E k \in 1..Len(s) : s[k] = None) THEN all
        ELSE Ok(PyList([k \in 1..Cardinality(pos) |->
                    PyInt(CHOOSE x \in pos : Rank(x) = k)]))

\* mutant of idx2uidSeq: a None entry is looked up like an identifier
idx2uidSeq_NoneLookedUp(m, s) ==
    Collect([k \in 1..Len(s) |-> one_idx2uid(m, s[k])])

idx2uidSeq(m, s) ==
    Collect([k \in 1..Len(s) |->
                IF s[k] = None THEN Ok(None) ELSE one_idx2uid(m, s[k])])

idx2uid(m, idx) ==
    IF idx = None THEN Ok(None)
    ELSE IF IsScalar(idx) THEN one_idx2uid(m, idx)
    ELSE IF IsList(idx)
    THEN IF Len(idx.items) > 0 /\ IsList(idx.items[1])
         THEN LET f == list_flatten(idx.items)
              IN  IF f.ok THEN idx2uidSeq(m, f.val) ELSE f
         ELSE idx2uidSeq(m, idx.items)
    ELSE Raise("NotImplementedError", m.class_name, idx)

-----------------------------------------------------------------------------
(* Device Collection accessor *)

\* the collection's value of attribute `p` at dense position uid (an int)
At(m, uid) == m.p[uid.v + 1]

RECURSIVE Nest(_, _)
Nest(k, x) == IF k = 0 THEN x ELSE PyList(<<Nest(k - 1, x)>>)

\* ndarray[list] where the list holds None.  NumPy >= 1.23 raises IndexError;
\* older NumPy reads such a list as a tuple index (None is newaxis), which on
\* a 1-d array selects at most one entry.  Either build is possible.
ArrayIndexWithNone(m, items) ==
    LET ints == {k \in 1..Len(items) : items[k] # None}
    IN  {Raise("IndexError", m.class_name, PyList(items))}
        \cup
        (IF ints = {} THEN {Ok(Nest(Len(items), PyList(m.p)))}
         ELSE IF Cardinality(ints) = 1
         THEN {Ok(Nest(Len(items) - 1, At(m, items[CHOOSE k \in ints : TRUE])))}
         ELSE {})

\* self.__dict__[src].__dict__[attr][uid]
Subscript(m, uid) ==
    IF uid = None
    THEN IF m.store = "list"
         THEN {Raise("TypeError", m.class_name, uid)}
         ELSE {Ok(Nest(1, PyList(m.p)))}
    ELSE IF ~IsList(uid) THEN {Ok(At(m, uid))}
    ELSE IF \E k \in 1..Len(uid.items) : uid.items[k] = None
    THEN ArrayIndexWithNone(m, uid.items)
    ELSE {Ok(PyList([k \in 1..Len(uid.items) |-> At(m, uid.items[k])]))}

\* Model.get: the set of outcomes the call can have
get(m, idx, allow_none, default) ==
    LET u == idx2uid(m, idx)
    IN  IF ~u.ok THEN {u}
        ELSE IF m.store = "list" /\ IsList(u.val)
        THEN IF ~allow_none /\ (\E k \in 1..Len(u.val.items) : u.val.items[k] = None)
             THEN {Raise("KeyError: None not allowed", m.class_name, None)}
             ELSE {Ok(PyList([k \in 1..Len(u.val.items) |->
                         IF u.val.items[k] # None THEN At(m, u.val.items[k])
                         ELSE default]))}
        ELSE Subscript(m, u.val)

-----------------------------------------------------------------------------
(* Bounded inputs of the accessors *)

IdPool == {PyInt(100 + k) : k \in 1..MaxDev}

UnknownId == PyInt(999)

SeqsUpTo(S, n) == UNION {[1..k -> S] : k \in 0..n}

\* registered identifiers are unique
Registrations == {s \in SeqsUpTo(IdPool, MaxDev) :
                     \A i, j \in 1..Len(s) : i # j => s[i] # s[j]}

IdxElems == IdPool \cup {UnknownId, None}

\* elements of a sequence that holds nested sequences
NestElems == {PyInt(101), PyInt(102), PyList(<<>>), PyList(<<PyInt(102)>>),
              PyList(<<PyInt(102), PyInt(101)>>)}

IdxInputs == {None, PyObj} \cup IdPool \cup {UnknownId}
             \cup {PyList(s) : s \in SeqsUpTo(IdxElems, MaxLen)}
             \cup {PyList(s) : s \in SeqsUpTo(NestElems, MaxLen)}

Defaults == {PyFloat(0), PyFloat(5)}

\* the value of attribute p of the device registered as `id`
Value(id) == PyFloat(id.v)

-----------------------------------------------------------------------------
(* Sensitivity Matrix Builder *)

\* makePTDF: one column per bus (in bus-table order), one row per line.  The
\* entries stand for themselves: the entry of line l and bus b is 10 * l + b,
\* so that a column is told from every other.
PTDF(nbus) == [b \in 1..nbus |-> [l \in 1..NLine |-> 10 * l + b]]

\* PTDF[:, uid]: the columns at the dense positions uid, in that order
Columns(P, uid) == [k \in 1..Len(uid) |-> P[uid[k].v + 1]]

\* int(bus) if isinstance(bus, (int, float)) else bus
IntIfNumber(x) ==
    IF x.t = "int" THEN x
    ELSE IF x.t = "float" THEN PyInt(x.v \div 10)
    ELSE x

\* bus in gen_bus
In(x, s) == \E k \in 1..Len(s) : Key(s[k]) = Key(x)

\* [f(bus) for bus in s if keep(bus)]
RECURSIVE NotIn(_, _)
NotIn(s, t) ==
    IF s = <<>> THEN <<>>
    ELSE IF In(Head(s), t) THEN NotIn(Tail(s), t)
    ELSE <<Head(s)>> \o NotIn(Tail(s), t)

\* MatProcessor.make: (PTDF[:, uid_regBus], PTDF[:, uid_redBus], PTDF), or
\* the exception idx2uid raised
make(n) ==
    LET Bus     == [class_name |-> "Bus", idx |-> n.bus]
        P       == PTDF(Len(n.bus))
        gen_bus == n.gen_bus
        all_bus == n.bus
        regBus  == [k \in 1..Len(gen_bus) |-> IntIfNumber(gen_bus[k])]
        other   == NotIn(all_bus, gen_bus)
        redBus  == [k \in 1..Len(other) |-> IntIfNumber(other[k])]
        uid_regBus == idx2uid(Bus, PyList(regBus))
        uid_redBus == idx2uid(Bus, PyList(redBus))
    IN  IF ~uid_regBus.ok THEN uid_regBus
        ELSE IF ~uid_redBus.ok THEN uid_redBus
        ELSE [ok |-> TRUE,
              reg |-> Columns(P, uid_regBus.val.items),
              red |-> Columns(P, uid_redBus.val.items),
              PTDF |-> P]

-----------------------------------------------------------------------------
(* The system: Device Collections, groups, routines *)

Routines == {"ACOPF", "DCPF"}

Models == {"Bus", "PV", "Slack", "PQ"}

Groups == {"ACTopology", "StaticGen", "Gen", "StaticLoad"}

\* the identifiers of each collection, in registration order
ModelIdx(m) ==
    CASE m = "Bus"   -> [i \in 1..NBus |-> PyInt(100 + i)]
      [] m = "Slack" -> [i \in 1..NSlack |-> PyInt(i)]
      [] m = "PV"    -> [i \in 1..NPV |-> PyInt(NSlack + i)]
      [] m = "PQ"    -> [i \in 1..NBus |-> PyStr(i)]

\* self.group of each collection
ModelGroup(m) ==
    CASE m = "Bus"   -> "ACTopology"
      [] m = "Slack" -> "Gen"
      [] m = "PV"    -> "Gen"
      [] m = "PQ"    -> "StaticLoad"

\* the collections of each group, in registration order
GroupMembers(g) ==
    CASE g = "ACTopology" -> <<"Bus">>
      [] g = "StaticGen"  -> <<"Slack", "PV">>
      [] g = "Gen"        -> <<"Slack", "PV">>
      [] g = "StaticLoad" -> <<"PQ">>

RECURSIVE Concat(_)
Concat(ss) == IF ss = <<>> THEN <<>> ELSE Head(ss) \o Concat(Tail(ss))

\* group.get_idx(): the identifiers of the group's devices
GroupIdx(g) ==
    Concat([k \in 1..Len(GroupMembers(g)) |-> ModelIdx(GroupMembers(g)[k])])

\* what getattr(system, name) finds: a collection (has `group`), a group (has
\* `get_idx`), a routine (has `class_name` only), an object with none of the
\* three (system.config), or nothing
SysKind(name) ==
    IF name \in Models THEN "model"
    ELSE IF name \in Groups THEN "group"
    ELSE IF name \in Routines THEN "routine"
    ELSE IF name = "config" THEN "plain"
    ELSE "absent"

\* the attributes that hold a value array: Algeb p, q, v, a and NumParam p0, q0
AttrSeq == <<<<"Bus", "v">>, <<"Bus", "a">>, <<"PV", "p">>, <<"PV", "q">>,
             <<"Slack", "p">>, <<"Slack", "q">>, <<"PQ", "p0">>, <<"PQ", "q0">>>>

AttrKeys == {AttrSeq[i] : i \in 1..Len(AttrSeq)}

\* the values of the case: 0 for the variables, the load for p0, q0
InitValue(key, i) ==
    IF key[2] = "p0" THEN 30 + i ELSE IF key[2] = "q0" THEN 10 + i ELSE 0

InitArray(key) == [i \in 1..Len(ModelIdx(key[1])) |-> InitValue(key, i)]

\* The array bound to <<m, a>> (self.__dict__[src].__dict__[attr]) as the
\* accessor sees it; after unpack it is a NumPy array.
ModelView(m, a) ==
    [class_name |-> m, idx |-> ModelIdx(m), store |-> "array",
     p |-> heap[attr[<<m, a>>]]]

\* group.get(src, idx=group.get_idx(), attr='v'): the members' values of src,
\* concatenated in group order
GroupGet(g, a) ==
    IF \E k \in 1..Len(GroupMembers(g)) : <<GroupMembers(g)[k], a>> \notin AttrKeys
    THEN Raise("AttributeError", g, PyStr(0))
    ELSE Ok(PyList(Concat([k \in 1..Len(GroupMembers(g)) |->
                              heap[attr[<<GroupMembers(g)[k], a>>]]])))

-----------------------------------------------------------------------------
(* The external solver *)

PyBool(b) == [t |-> "bool", v |-> b]

\* res['success'] as PYPOWER reports it: 0/1 or False/True
Flags == {PyInt(0), PyInt(1), PyBool(0), PyBool(1)}

Seeds == 1..MaxSeed

\* A result of the solver: baseMVA, bus rows (VM, VA in degrees), generator
\* rows (PG, QG in MW/MVAr, the Slack rows first), objective f, and the time
\* the call took (what elapsed() measures around it).  Every entry
\* differs from the values of the case and from the entries beside it.
MkRes(seed, flag) ==
    [success |-> flag,
     baseMVA |-> 50 * seed,
     bus |-> [i \in 1..NBus |-> [VM |-> 100 * seed + i, VA |-> 10 * seed + i]],
     gen |-> [j \in 1..(NSlack + NPV) |->
                [PG |-> 50 * seed * (10 * seed + j),
                 QG |-> 50 * seed * (20 * seed + j)]],
     f |-> 1000 * seed,
     elapsed |-> seed]

\* deg2rad, in units of 1e-6 rad per degree
deg2rad == 17453

\* res[rows][from:, col]
Column(rows, from, to, col) ==
    [k \in 1..(IF to >= from THEN to - from + 1 ELSE 0) |-> rows[from + k - 1][col]]

\* mutant of Div: the megawatt values are written as they are
Div_Unscaled(a, mva) == a

\* array / mva, array * c
Div(a, mva) == [k \in 1..Len(a) |-> a[k] \div mva]

Mul(a, c) == [k \in 1..Len(a) |-> a[k] * c]

-----------------------------------------------------------------------------
(* Routine Variables and Parameter References *)

\* RAlgeb / Var as declared; "None" stands for an argument left at None
RVar(name, src, owner_name) == [name |-> name, src |-> src, owner_name |-> owner_name]

\* ACOPFModel.__init__ and DCPFlowModel.__init__
Declared(r) ==
    IF r = "ACOPF"
    THEN <<RVar("aBus", "a", "Bus"), RVar("vBus", "v", "Bus"),
           RVar("pg", "p", "StaticGen"), RVar("qg", "q", "StaticGen")>>
    ELSE <<RVar("aBus", "a", "Bus"), RVar("pg", "p", "StaticGen")>>

\* one more variable a routine built on ACOPFBase / DCPFlowBase may declare
ExtraVars ==
    {RVar("x", "p", "None"),        \* no owner name
     RVar("x", "p", "Nowhere"),     \* names nothing on the system
     RVar("x", "p", "config"),      \* an object without group, get_idx, class_name
     RVar("x", "p", "DCPF"),        \* an object with class_name only
     RVar("x", "None", "Bus"),      \* no source attribute
     RVar("x", "p", "PV")}          \* a collection that shares its group

VarNames == {"aBus", "vBus", "pg", "qg", "x"}

\* One visit of the loop of unpack: the variable is written, skipped without
\* a word (no src), skipped with a warning, or the visit raises.
UnpackVarOutcomes(d) ==
    IF d.owner_name = "None"
    THEN {[kind |-> "raise", err |-> "TypeError"]}
    ELSE IF SysKind(d.owner_name) = "absent"
    THEN {[kind |-> "raise", err |-> "AttributeError"]}
    ELSE IF d.src = "None"
    THEN {[kind |-> "skip"]}
    ELSE IF SysKind(d.owner_name) = "model"
    THEN IF <<d.owner_name, d.src>> \notin AttrKeys
         THEN {[kind |-> "raise", err |-> "KeyError"]}
         ELSE {IF o.ok THEN [kind |-> "write", val |-> o.val]
                       ELSE [kind |-> "raise", err |-> o.err] :
                  o \in get(ModelView(d.owner_name, d.src),
                            PyList(GroupIdx(ModelGroup(d.owner_name))),
                            FALSE, PyFloat(0))}
    ELSE IF SysKind(d.owner_name) = "group"
    THEN LET o == GroupGet(d.owner_name, d.src)
         IN  {IF o.ok THEN [kind |-> "write", val |-> o.val]
                      ELSE [kind |-> "raise", err |-> o.err]}
    ELSE IF SysKind(d.owner_name) = "routine"
    THEN {[kind |-> "warn"]}
    ELSE {[kind |-> "raise", err |-> "AttributeError"]}

\* RParam.__init__
RParamInit(name, src, owner_name, v) ==
    [name |-> name,
     src |-> IF src = "None" THEN name ELSE src,
     is_group |-> FALSE,
     owner_name |-> owner_name,
     owner |-> "None",
     is_set |-> v # None,
     v |-> v]

\* setup(): the owner of each reference is resolved
BindOwner(p) ==
    IF SysKind(p.owner_name) \in {"model", "group"}
    THEN [p EXCEPT !.owner = p.owner_name,
                   !.is_group = (SysKind(p.owner_name) = "group")]
    ELSE p

\* the Parameter References of a routine: pd (dcpf.py), qd (acopf.py) and
\* references on attributes that unpack writes, with and without src, on a
\* group, and with an explicit value
ParamNames == {"pd", "qd", "p", "pg0", "pgs", "v", "pmax"}

ParamDecl(n) ==
    CASE n = "pd"   -> RParamInit("pd", "p0", "PQ", None)
      [] n = "qd"   -> RParamInit("qd", "q0", "PQ", None)
      [] n = "p"    -> RParamInit("p", "None", "PV", None)
      [] n = "pg0"  -> RParamInit("pg0", "p", "PV", None)
      [] n = "pgs"  -> RParamInit("pgs", "p", "StaticGen", None)
      [] n = "v"    -> RParamInit("v", "None", "Bus", PyList(<<9, 9>>))
      [] n = "pmax" -> RParamInit("pmax", "None", "StaticGen", PyList(<<8>>))

\* the reference n of routine r as it stands
RParamOf(r, n) == IF is_setup[r] THEN BindOwner(ParamDecl(n)) ELSE ParamDecl(n)

\* mutant of RParam_v: the group is asked before the explicit value
RParam_v_GroupFirst(p) ==
    IF p.is_group THEN GroupGet(p.owner, p.src)
    ELSE IF p.is_set THEN Ok(p.v)
    ELSE IF p.owner = "None" \/ <<p.owner, p.src>> \notin AttrKeys
    THEN Raise("AttributeError", p.owner, PyStr(0))
    ELSE Ok(PyList(heap[attr[<<p.owner, p.src>>]]))

\* mutant of RParam_v: the reference keeps the array it saw when the run began
RParam_v_View(p) ==
    IF p.is_set THEN Ok(p.v)
    ELSE IF p.is_group THEN GroupGet(p.owner, p.src)
    ELSE IF p.owner = "None" \/ <<p.owner, p.src>> \notin AttrKeys
    THEN Raise("AttributeError", p.owner, PyStr(0))
    ELSE Ok(PyList(heap[pre[<<p.owner, p.src>>]]))

\* RParam.v
RParam_v(p) ==
    IF p.is_set THEN Ok(p.v)
    ELSE IF p.is_group THEN GroupGet(p.owner, p.src)
    ELSE IF p.owner = "None" \/ <<p.owner, p.src>> \notin AttrKeys
    THEN Raise("AttributeError", p.owner, PyStr(0))
    ELSE Ok(PyList(heap[attr[<<p.owner, p.src>>]]))

-----------------------------------------------------------------------------
(* Each specification leaves the state of the others at rest *)

IdleIdx ==
    /\ dev = [class_name |-> "Bus", idx |-> <<>>, store |-> "list", p |-> <<>>]
    /\ arg = [idx |-> None, allow_none |-> FALSE, default |-> PyFloat(0)]
    /\ call = [op |-> "none"]

IdleMat ==
    /\ net = [bus |-> <<>>, gen_bus |-> <<>>]
    /\ mat = [op |-> "none"]

IdleUC ==
    /\ gen = <<>>
    /\ uc = [hist |-> <<gen>>, steps |-> <<>>, rets |-> <<>>]

-----------------------------------------------------------------------------
(* The Routine Pipeline: run() = setup, solve, exit code, unpack *)

devvars == <<heap, attr, shadow>>

rtvars == <<is_setup, exit_code, exec_time, rvar, objv, recent>>

\* x.v = values: the attribute is bound to a new array object
Assigned(h, a, key, values) ==
    [heap |-> Append(h, values), attr |-> [a EXCEPT ![key] = Len(h) + 1]]

\* the declared variables: those of the class, and possibly one more, placed
\* before them, after the first of them, or after them
Declarations ==
    {[r \in Routines |-> Declared(r)]}
    \cup {[r \in Routines |-> <<x>> \o Declared(r)] : x \in ExtraVars}
    \cup {[r \in Routines |-> <<Head(Declared(r)), x>> \o Tail(Declared(r))] :
             x \in ExtraVars}
    \cup {[r \in Routines |-> Declared(r) \o <<x>>] : x \in ExtraVars}

\* The arrays still bound to an attribute, renumbered in the order of
\* AttrSeq: an array nothing refers to is freed, and an array is known by its
\* identity only, whatever the number that stands for it.
LiveHeap(h, a) == [i \in 1..Len(AttrSeq) |-> h[a[AttrSeq[i]]]]

LiveAttr == [key \in AttrKeys |-> CHOOSE i \in 1..Len(AttrSeq) : AttrSeq[i] = key]

\* the device arrays as the case file gives them
InitDev ==
    /\ heap = [i \in 1..Len(AttrSeq) |-> InitArray(AttrSeq[i])]
    /\ attr = LiveAttr
    /\ shadow = [key \in AttrKeys |-> InitArray(key)]

\* the routines as constructed: not set up, nothing run
InitRt ==
    /\ decl \in Declarations
    /\ is_setup = [r \in Routines |-> FALSE]
    /\ exit_code = [r \in Routines |-> None]
    /\ exec_time = [r \in Routines |-> None]
    /\ rvar = [r \in Routines |-> [n \in VarNames |-> None]]
    /\ objv = [r \in Routines |-> None]
    /\ recent = "None"
    /\ pc = "idle"
    /\ cur = "None"
    /\ res = None
    /\ vk = 1
    /\ log = <<>>
    /\ pre = LiveAttr
    /\ outcome = [kind |-> "none"]

InitSys == InitDev /\ InitRt

\* the system when no routine is looked at
IdleSys ==
    /\ InitSys
    /\ decl = [r \in Routines |-> Declared(r)]

\* mutant of NeedsSetup: run() goes to solve() without looking at is_setup
NeedsSetup_Never(r) == FALSE

\* mutant of NeedsSetup: run() calls setup() every time
NeedsSetup_Always(r) == TRUE

\* run(): `if not self.is_setup`
NeedsSetup(r) == ~is_setup[r]

\* run() is called on routine r
RunBegin(r) ==
    /\ pc = "idle"
    /\ cur' = r
    /\ pc' = IF NeedsSetup(r) THEN "setup" ELSE "solve"
    /\ log' = <<>>
    /\ heap' = LiveHeap(heap, attr)
    /\ attr' = LiveAttr
    /\ pre' = LiveAttr
    /\ outcome' = [kind |-> "running"]
    /\ res' = None
    /\ vk' = 1
    /\ UNCHANGED <<idxvars, matvars, ucvars, shadow, rtvars, decl>>

\* self.setup()
RunSetup ==
    /\ pc = "setup"
    /\ is_setup' = [is_setup EXCEPT ![cur] = TRUE]
    /\ log' = Append(log, "setup")
    /\ pc' = "solve"
    /\ UNCHANGED <<idxvars, matvars, ucvars, devvars, exit_code, exec_time, rvar, objv, recent, cur, res,
                   vk, pre, outcome, decl>>

\* mutant of RunSolve: solve() stores the time it took
RunSolve_Timed ==
    /\ pc = "solve"
    /\ \E seed \in Seeds, flag \in Flags :
          /\ res' = MkRes(seed, flag)
          /\ exec_time' = [exec_time EXCEPT ![cur] = PyFloat(seed)]
    /\ log' = Append(log, "solve")
    /\ pc' = "exit"
    /\ UNCHANGED <<idxvars, matvars, ucvars, devvars, is_setup, exit_code, rvar, objv, recent,
                   cur, vk, pre, outcome, decl>>

\* res = self.solve(**kwargs): the solver returns a result
RunSolve ==
    /\ pc = "solve"
    /\ \E seed \in Seeds, flag \in Flags : res' = MkRes(seed, flag)
    /\ log' = Append(log, "solve")
    /\ pc' = "exit"
    /\ UNCHANGED <<idxvars, matvars, ucvars, devvars, rtvars, cur, vk, pre, outcome, decl>>

\* mutant of RunSolveRaises: run() records the failure as exit code 1
RunSolveRaises_Coded ==
    /\ pc = "solve"
    /\ log' = Append(log, "solve")
    /\ exit_code' = [exit_code EXCEPT ![cur] = PyInt(1)]
    /\ outcome' = [kind |-> "raised", err |-> "SolverError", at |-> "solve"]
    /\ pc' = "idle"
    /\ UNCHANGED <<idxvars, matvars, ucvars, devvars, is_setup, exec_time, rvar, objv,
                   recent, cur, res, vk, pre, decl>>

\* res = self.solve(**kwargs): system2ppc or the solver raises
RunSolveRaises ==
    /\ pc = "solve"
    /\ log' = Append(log, "solve")
    /\ outcome' = [kind |-> "raised", err |-> "SolverError", at |-> "solve"]
    /\ pc' = "idle"
    /\ UNCHANGED <<idxvars, matvars, ucvars, devvars, rtvars, cur, res, vk, pre, decl>>

\* mutant of ExitCode: the success flag itself is stored
ExitCode_Flag(r, flag) == PyInt(flag.v)

\* ACOPFBase.run: int(1 - res['success']);  DCPFlowBase.run: 0 if success else 1
ExitCode(r, flag) ==
    IF r = "ACOPF" THEN PyInt(1 - flag.v)
    ELSE IF flag.v # 0 THEN PyInt(0) ELSE PyInt(1)

\* self.exit_code = ...; self.exec_time = ...
RunExit ==
    /\ pc = "exit"
    /\ exit_code' = [exit_code EXCEPT ![cur] = ExitCode(cur, res.success)]
    /\ exec_time' = [exec_time EXCEPT ![cur] = PyFloat(res.elapsed)]
    /\ log' = Append(log, "exit_code")
    /\ pc' = "unpack_bus"
    /\ UNCHANGED <<idxvars, matvars, ucvars, devvars, is_setup, rvar, objv, recent, cur, res, vk, pre,
                   outcome, decl>>

\* unpack: system.Bus.v.v = res['bus'][:, 7]; system.Bus.a.v = ... * deg2rad
UnpackBus ==
    /\ pc = "unpack_bus"
    /\ LET vm == Column(res.bus, 1, Len(res.bus), "VM")
           va == Mul(Column(res.bus, 1, Len(res.bus), "VA"), deg2rad)
           s1 == Assigned(heap, attr, <<"Bus", "v">>, vm)
           s2 == Assigned(s1.heap, s1.attr, <<"Bus", "a">>, va)
       IN  /\ heap' = s2.heap
           /\ attr' = s2.attr
           /\ shadow' = [shadow EXCEPT ![<<"Bus", "v">>] = vm, ![<<"Bus", "a">>] = va]
    /\ log' = Append(log, "unpack")
    /\ pc' = "unpack_pv"
    /\ UNCHANGED <<idxvars, matvars, ucvars, rtvars, cur, res, vk, pre, outcome, decl>>

\* unpack: system.PV.p.v = res['gen'][system.Slack.n:, 1] / mva; likewise q
UnpackPV ==
    /\ pc = "unpack_pv"
    /\ LET pg == Div(Column(res.gen, NSlack + 1, Len(res.gen), "PG"), res.baseMVA)
           qg == Div(Column(res.gen, NSlack + 1, Len(res.gen), "QG"), res.baseMVA)
           s1 == Assigned(heap, attr, <<"PV", "p">>, pg)
           s2 == Assigned(s1.heap, s1.attr, <<"PV", "q">>, qg)
       IN  /\ heap' = s2.heap
           /\ attr' = s2.attr
           /\ shadow' = [shadow EXCEPT ![<<"PV", "p">>] = pg, ![<<"PV", "q">>] = qg]
    /\ pc' = "unpack_slack"
    /\ UNCHANGED <<idxvars, matvars, ucvars, rtvars, cur, res, vk, log, pre, outcome, decl>>

\* unpack: system.Slack.p.v = res['gen'][:system.Slack.n, 1] / mva; likewise q
UnpackSlack ==
    /\ pc = "unpack_slack"
    /\ LET pg == Div(Column(res.gen, 1, NSlack, "PG"), res.baseMVA)
           qg == Div(Column(res.gen, 1, NSlack, "QG"), res.baseMVA)
           s1 == Assigned(heap, attr, <<"Slack", "p">>, pg)
           s2 == Assigned(s1.heap, s1.attr, <<"Slack", "q">>, qg)
       IN  /\ heap' = s2.heap
           /\ attr' = s2.attr
           /\ shadow' = [shadow EXCEPT ![<<"Slack", "p">>] = pg, ![<<"Slack", "q">>] = qg]
    /\ vk' = 1
    /\ pc' = "unpack_vars"
    /\ UNCHANGED <<idxvars, matvars, ucvars, rtvars, cur, res, log, pre, outcome, decl>>

\* mutant of UnpackVar: on an exception the variables of the routine are
\* put back to unset
UnpackVar_Reset ==
    /\ pc = "unpack_vars"
    /\ vk <= Len(decl[cur])
    /\ \E o \in UnpackVarOutcomes(decl[cur][vk]) :
          /\ rvar' = IF o.kind = "write"
                     THEN [rvar EXCEPT ![cur][decl[cur][vk].name] = o.val]
                     ELSE IF o.kind = "raise"
                     THEN [rvar EXCEPT ![cur] = [n \in VarNames |-> None]]
                     ELSE rvar
          /\ log' = IF o.kind = "warn" THEN Append(log, "warning") ELSE log
          /\ IF o.kind = "raise"
             THEN /\ pc' = "idle"
                  /\ outcome' = [kind |-> "raised", err |-> o.err, at |-> "unpack"]
                  /\ res' = None
                  /\ heap' = LiveHeap(heap, attr)
                  /\ attr' = LiveAttr
                  /\ pre' = LiveAttr
             ELSE UNCHANGED <<pc, outcome, res, heap, attr, pre>>
    /\ vk' = vk + 1
    /\ UNCHANGED <<idxvars, matvars, ucvars, shadow, is_setup, exit_code, exec_time,
                   objv, recent, cur, decl>>

\* unpack: one turn of `for raname, ralgeb in self.ralgebs.items()`; an
\* exception leaves unpack and run, and the result and the views are dropped
UnpackVar ==
    /\ pc = "unpack_vars"
    /\ vk <= Len(decl[cur])
    /\ \E o \in UnpackVarOutcomes(decl[cur][vk]) :
          /\ rvar' = IF o.kind = "write"
                     THEN [rvar EXCEPT ![cur][decl[cur][vk].name] = o.val]
                     ELSE rvar
          /\ log' = IF o.kind = "warn" THEN Append(log, "warning") ELSE log
          /\ IF o.kind = "raise"
             THEN /\ pc' = "idle"
                  /\ outcome' = [kind |-> "raised", err |-> o.err, at |-> "unpack"]
                  /\ res' = None
                  /\ heap' = LiveHeap(heap, attr)
                  /\ attr' = LiveAttr
                  /\ pre' = LiveAttr
             ELSE UNCHANGED <<pc, outcome, res, heap, attr, pre>>
    /\ vk' = vk + 1
    /\ UNCHANGED <<idxvars, matvars, ucvars, shadow, is_setup, exit_code, exec_time,
                   objv, recent, cur, decl>>

\* mutant of UnpackEnd: the cursor is left as it was
UnpackEnd_NoRecent ==
    /\ pc = "unpack_vars"
    /\ vk > Len(decl[cur])
    /\ objv' = IF cur = "ACOPF" THEN [objv EXCEPT ![cur] = PyInt(res.f)] ELSE objv
    /\ pc' = "return"
    /\ UNCHANGED <<idxvars, matvars, ucvars, devvars, is_setup, exit_code, exec_time, rvar, cur, res, vk,
                   log, pre, outcome, decl, recent>>

\* unpack: self.obj.v = res['f'] (ACOPF); system.recent = this routine
UnpackEnd ==
    /\ pc = "unpack_vars"
    /\ vk > Len(decl[cur])
    /\ objv' = IF cur = "ACOPF" THEN [objv EXCEPT ![cur] = PyInt(res.f)] ELSE objv
    /\ recent' = cur
    /\ pc' = "return"
    /\ UNCHANGED <<idxvars, matvars, ucvars, devvars, is_setup, exit_code, exec_time, rvar, cur, res, vk,
                   log, pre, outcome, decl>>

\* ACOPFBase.run returns self.exit_code; DCPFlowBase.run returns True / False.
\* The result and the views of the run are dropped.
RunReturn ==
    /\ pc = "return"
    /\ outcome' = [kind |-> "returned",
                   val |-> IF cur = "ACOPF" THEN exit_code[cur]
                           ELSE IF exit_code[cur] = PyInt(0) THEN PyBool(1)
                           ELSE PyBool(0)]
    /\ pc' = "idle"
    /\ res' = None
    /\ heap' = LiveHeap(heap, attr)
    /\ attr' = LiveAttr
    /\ pre' = LiveAttr
    /\ UNCHANGED <<idxvars, matvars, ucvars, shadow, rtvars, cur, vk, log, decl>>

\* collection.set(src, idx, 'v', value): an in-place write of one entry
Set(key, i, value) ==
    /\ pc = "idle"
    /\ heap[attr[key]][i] # value
    /\ heap' = [heap EXCEPT ![attr[key]][i] = value]
    /\ shadow' = [shadow EXCEPT ![key][i] = value]
    /\ UNCHANGED <<idxvars, matvars, ucvars, attr, rtvars, pc, cur, res, vk, log, pre, outcome, decl>>

Init == InitSys /\ IdleIdx /\ IdleMat /\ IdleUC

Next ==
    \/ \E r \in Routines : RunBegin(r)
    \/ RunSetup
    \/ RunSolve
    \/ RunSolveRaises
    \/ RunExit
    \/ UnpackBus
    \/ UnpackPV
    \/ UnpackSlack
    \/ UnpackVar
    \/ UnpackEnd
    \/ RunReturn
    \/ \E key \in {<<"PV", "p">>, <<"PQ", "p0">>} : Set(key, 1, 77)

Spec == Init /\ [][Next]_vars

-----------------------------------------------------------------------------
(* SpecIdx: the accessors applied to bounded inputs *)

InitIdx ==
    /\ IdleMat
    /\ IdleUC
    /\ IdleSys
    /\ \E s \in Registrations :
          dev = [class_name |-> "Bus", idx |-> s, store |-> "list",
                 p |-> [k \in 1..Len(s) |-> Value(s[k])]]
    /\ arg \in [idx : IdxInputs, allow_none : BOOLEAN, default : Defaults]
    /\ call = [op |-> "none"]

CallIdx2uid ==
    /\ call' = [op |-> "idx2uid", ret |-> idx2uid(dev, arg.idx)]
    /\ UNCHANGED <<dev, arg, matvars, ucvars, sysvars>>

CallGet ==
    /\ \E o \in get(dev, arg.idx, arg.allow_none, arg.default) :
          call' = [op |-> "get", store |-> dev.store, ret |-> o]
    /\ UNCHANGED <<dev, arg, matvars, ucvars, sysvars>>

\* Model.list2array: every value attribute becomes a NumPy array
list2array ==
    /\ dev.store = "list"
    /\ dev' = [dev EXCEPT !.store = "array"]
    /\ call' = [op |-> "list2array"]
    /\ UNCHANGED <<arg, matvars, ucvars, sysvars>>

NextIdx == CallIdx2uid \/ CallGet \/ list2array

SpecIdx == InitIdx /\ [][NextIdx]_vars

-----------------------------------------------------------------------------
(* SpecMat: make applied to every placement of generators on buses *)

\* each generator of the StaticGen group sits on a registered bus
Placements(bus) ==
    {g \in SeqsUpTo({bus[k] : k \in 1..Len(bus)}, MaxGen) : TRUE}

\* bus identifiers of the types the index accepts: integers, a string, a
\* float that is no integer (101.5) and one that is (103.0)
BusIdPool == {PyInt(101), PyInt(102), PyStr(1), PyFloat(1015), PyFloat(1030)}

\* bus tables: registered identifiers are unique as dictionary keys
BusTables == {s \in SeqsUpTo(BusIdPool, MaxDev) :
                 \A i, j \in 1..Len(s) : i # j => Key(s[i]) # Key(s[j])}

InitMat ==
    /\ IdleIdx
    /\ IdleUC
    /\ IdleSys
    /\ \E s \in BusTables :
          \E g \in Placements(s) : net = [bus |-> s, gen_bus |-> g]
    /\ mat = [op |-> "none"]

CallMake ==
    /\ mat' = [op |-> "make", ret |-> make(net)]
    /\ UNCHANGED <<net, idxvars, ucvars, sysvars>>

NextMat == CallMake

SpecMat == InitMat /\ [][NextMat]_vars

-----------------------------------------------------------------------------
(* SpecParam: a Parameter Reference constructed, possibly bound, and read *)

\* the values an array of the case may hold
DevValues == {0, 77}

\* RParam(name=, src=, owner_name=, v=); "None" stands for an argument left out
CtorArgs ==
    [name : {"p", "q"}, src : {"None", "p", "q"},
     owner_name : {"None", "Bus", "PV", "StaticGen"},
     v : {None, PyList(<<9>>)}, bound : BOOLEAN]

\* the reference built from the arguments, before or after its owner is bound
Param ==
    LET p == RParamInit(arg.name, arg.src, arg.owner_name, arg.v)
    IN  IF arg.bound THEN BindOwner(p) ELSE p

InitParam ==
    /\ IdleMat
    /\ IdleUC
    /\ InitRt
    /\ decl = [r \in Routines |-> Declared(r)]
    /\ \E a \in DevValues, b \in DevValues :
          /\ shadow = [key \in AttrKeys |->
                         [i \in 1..Len(ModelIdx(key[1])) |->
                            IF key[1] = "PV" THEN a + i
                            ELSE IF key[1] = "Slack" THEN b + 10 * i
                            ELSE InitValue(key, i)]]
          /\ heap = [i \in 1..Len(AttrSeq) |-> shadow[AttrSeq[i]]]
    /\ attr = LiveAttr
    /\ dev = [class_name |-> "Bus", idx |-> <<>>, store |-> "list", p |-> <<>>]
    /\ arg \in CtorArgs
    /\ call = [op |-> "none"]

\* param.v is read
ReadParam ==
    /\ call' = [op |-> "RParam.v", ret |-> RParam_v(Param)]
    /\ UNCHANGED <<dev, arg, matvars, ucvars, sysvars>>

NextParam == ReadParam

SpecParam == InitParam /\ [][NextParam]_vars

-----------------------------------------------------------------------------
(* SpecUC: the initial guess of the commitment decision *)

MaxPV == 7

MaxCalls == 2

\* cost and size of a generator: the second has the smaller c2 and the
\* larger weighted sum; generators of one profile have equal sums
CostProfiles ==
    {[c2 |-> 1, c1 |-> 0, c0 |-> 0, Sn |-> 0],
     [c2 |-> 0, c1 |-> 1, c0 |-> 1, Sn |-> 0]}

\* the PV generators of a case: all online, or one of them offline
Fleets ==
    UNION {{[i \in 1..n |-> [u |-> IF i = off THEN 0 ELSE 1,
                             c2 |-> c[i].c2, c1 |-> c[i].c1,
                             c0 |-> c[i].c0, Sn |-> c[i].Sn]] :
               c \in [1..n -> CostProfiles], off \in 0..n} : n \in 0..MaxPV}

\* gen['wsum'] = 0.4*c2 + 0.3*c1 + 0.2*c0 + 0.1*Sn, in tenths
wsum(g) == 4 * g.c2 + 3 * g.c1 + 2 * g.c0 + 1 * g.Sn

\* mutant of NOff: half of the generators
NOff_Half(n) == n \div 2

\* int(0.3 * len(priority))
NOff(n) == (3 * n) \div 10

\* priority[0:k] after sort_values(by='wsum', ascending=True): k generators
\* that no other precedes; the sort is not stable, so among equal sums any
\* of them may come first
g_idx(gs) ==
    {S \in SUBSET (1..Len(gs)) :
        /\ Cardinality(S) = NOff(Len(gs))
        /\ \A i \in S, j \in (1..Len(gs)) \ S : wsum(gs[i]) <= wsum(gs[j])}

\* StaticGen.set(src='u', attr='v', idx=S, value=zeros)
SetOffline(gs, S) == [i \in 1..Len(gs) |-> IF i \in S THEN [gs[i] EXCEPT !.u = 0] ELSE gs[i]]

\* UCModel._initial_guess: the fleets it may leave; it returns True
initial_guess(gs) ==
    IF \E i \in 1..Len(gs) : gs[i].u = 0
    THEN {gs}
    ELSE {SetOffline(gs, S) : S \in g_idx(gs)}

InitUC ==
    /\ IdleIdx
    /\ IdleMat
    /\ IdleSys
    /\ gen \in Fleets
    /\ uc = [hist |-> <<gen>>, steps |-> <<>>, rets |-> <<>>]

\* self._initial_guess() is called
CallInitialGuess ==
    /\ Len(uc.rets) < MaxCalls
    /\ \E gs \in initial_guess(gen) :
          /\ gen' = gs
          /\ uc' = [hist |-> Append(uc.hist, gs),
                    steps |-> <<"_initial_guess">>,
                    rets |-> Append(uc.rets, PyBool(1))]
    /\ UNCHANGED <<idxvars, matvars, sysvars>>

\* UCModel.init: self._initial_guess(), then super().init(**kwargs)
CallInit ==
    /\ Len(uc.rets) < MaxCalls
    /\ \E gs \in initial_guess(gen) :
          /\ gen' = gs
          /\ uc' = [hist |-> Append(uc.hist, gs),
                    steps |-> <<"_initial_guess", "init">>,
                    rets |-> Append(uc.rets, PyBool(1))]
    /\ UNCHANGED <<idxvars, matvars, sysvars>>

NextUC == CallInitialGuess \/ CallInit

SpecUC == InitUC /\ [][NextUC]_vars

-----------------------------------------------------------------------------
(* Claims on the Identifier Index and the accessor (SpecIdx) *)

Registered(x) == \E j \in 1..Len(dev.idx) : dev.idx[j] = x

\* a flat list: no element is itself a list
FlatList(x) == IsList(x) /\ \A k \in 1..Len(x.items) : ~IsList(x.items[k])

\* C7: idx2uid on a sequence of registered identifiers (repeats allowed, the
\* empty sequence included) returns as many positions as identifiers, the
\* k-th being the dense position of the k-th identifier; a single registered
\* identifier resolves to its position.  With 101, 102, 103 registered:
\* 102 -> 1 and [103, 101] -> [2, 0].
C7_OrderPreserved ==
    call.op = "idx2uid" =>
        /\ (IsList(arg.idx) /\ \A k \in 1..Len(arg.idx.items) : Registered(arg.idx.items[k]))
              => /\ call.ret.ok
                 /\ IsList(call.ret.val)
                 /\ Len(call.ret.val.items) = Len(arg.idx.items)
                 /\ \A k \in 1..Len(arg.idx.items) :
                       /\ call.ret.val.items[k].t = "int"
                       /\ dev.idx[call.ret.val.items[k].v + 1] = arg.idx.items[k]
        /\ (IsScalar(arg.idx) /\ Registered(arg.idx))
              => /\ call.ret.ok
                 /\ call.ret.val.t = "int"
                 /\ dev.idx[call.ret.val.v + 1] = arg.idx
        /\ (dev.idx = <<PyInt(101), PyInt(102), PyInt(103)>>)
              => /\ arg.idx = PyInt(102) => call.ret = Ok(PyInt(1))
                 /\ arg.idx = PyList(<<PyInt(103), PyInt(101)>>)
                       => call.ret = Ok(PyList(<<PyInt(2), PyInt(0)>>))

\* C7 witness: a sequence with a repeated identifier has been resolved
C7_Witness ==
    /\ call.op = "idx2uid"
    /\ IsList(arg.idx) /\ Len(arg.idx.items) = 2
    /\ arg.idx.items[1] = arg.idx.items[2]
    /\ Registered(arg.idx.items[1])
    /\ Len(dev.idx) >= 2
    /\ call.ret.ok /\ call.ret.val.items[1].v = 1

\* an identifier that is not registered
Unknown(x) == IsScalar(x) /\ ~Registered(x)

C8_Fails ==
    call.op = "idx2uid" =>
        /\ Unknown(arg.idx)
              => call.ret = Raise("KeyError", dev.class_name, arg.idx)
        /\ (FlatList(arg.idx) /\ \E k \in 1..Len(arg.idx.items) : Unknown(arg.idx.items[k]))
              => /\ ~call.ret.ok
                 /\ call.ret.err = "KeyError"
                 /\ call.ret.cls = dev.class_name
                 /\ \E k \in 1..Len(arg.idx.items) :
                       /\ Unknown(arg.idx.items[k])
                       /\ call.ret.idx = arg.idx.items[k]

\* C8: resolving an identifier that is not registered raises a KeyError that
\* names the identifier and the owning collection; when it is one element of
\* a sequence the whole resolve raises (no partial list of positions is
\* returned); and a resolve leaves the index as it was.
C8_UnknownRaises ==
    /\ []C8_Fails
    /\ [][call'.op = "idx2uid" => dev' = dev]_vars

\* C8 witness: a sequence whose first identifier is registered and whose
\* second is not has been resolved, and the resolve raised
C8_Witness ==
    /\ call.op = "idx2uid"
    /\ IsList(arg.idx) /\ Len(arg.idx.items) = 2
    /\ Registered(arg.idx.items[1])
    /\ Unknown(arg.idx.items[2])
    /\ ~call.ret.ok

\* a flat list of registered identifiers and None, None at least once
HasNoneEntries(x) ==
    /\ FlatList(x)
    /\ \E k \in 1..Len(x.items) : x.items[k] = None
    /\ \A k \in 1..Len(x.items) : x.items[k] = None \/ Registered(x.items[k])

\* the value of attribute p of the device with identifier x
ValueAt(x) == dev.p[CHOOSE j \in 1..Len(dev.idx) : dev.idx[j] = x]

\* C9: get on a sequence of identifiers with None entries raises the
\* missing-index KeyError when allow_none is false, and with allow_none true
\* returns the attribute value of each identifier and `default` for each
\* None, position by position; for a list-stored attribute and for an
\* attribute that list2array has turned into an array alike.
C9_NoneEntries ==
    (call.op = "get" /\ HasNoneEntries(arg.idx)) =>
        /\ ~arg.allow_none =>
              /\ ~call.ret.ok
              /\ call.ret.err = "KeyError: None not allowed"
        /\ arg.allow_none =>
              call.ret = Ok(PyList([k \in 1..Len(arg.idx.items) |->
                              IF arg.idx.items[k] = None THEN arg.default
                              ELSE ValueAt(arg.idx.items[k])]))

\* C9 holds of an attribute that is still a list
C9_NoneEntriesList == call.op = "get" /\ call.store = "list" => C9_NoneEntries

C9_WitnessList ==
    /\ call.op = "get" /\ call.store = "list"
    /\ HasNoneEntries(arg.idx) /\ Len(arg.idx.items) = 2
    /\ arg.idx.items[1] # None
    /\ arg.allow_none

\* the sequence s with each nested sequence replaced by its elements
RECURSIVE FlattenOne(_)
FlattenOne(s) ==
    IF s = <<>> THEN <<>>
    ELSE (IF IsList(Head(s)) THEN Head(s).items ELSE <<Head(s)>>)
            \o FlattenOne(Tail(s))

\* a sequence with at least one nested sequence, all of registered identifiers
NestedRegistered(x) ==
    /\ IsList(x)
    /\ \E k \in 1..Len(x.items) : IsList(x.items[k])
    /\ \A k \in 1..Len(FlattenOne(x.items)) :
          LET y == FlattenOne(x.items)[k] IN IsScalar(y) /\ Registered(y)

\* the dense positions of a flat sequence of registered identifiers
Positions(s) ==
    [k \in 1..Len(s) |->
        PyInt((CHOOSE j \in 1..Len(dev.idx) : dev.idx[j] = s[k]) - 1)]

\* C17: resolving a sequence that holds nested sequences of registered
\* identifiers gives the positions of the sequence with each nested sequence
\* replaced by its elements, wherever the nested sequences stand and whether
\* or not the first element is a sequence.
C17_FlattenedFirst ==
    (call.op = "idx2uid" /\ NestedRegistered(arg.idx)) =>
        call.ret = Ok(PyList(Positions(FlattenOne(arg.idx.items))))

\* what does hold: the same when every element is a sequence
C17_AllNested ==
    (call.op = "idx2uid" /\ NestedRegistered(arg.idx)
       /\ \A k \in 1..Len(arg.idx.items) : IsList(arg.idx.items[k])) =>
        call.ret = Ok(PyList(Positions(FlattenOne(arg.idx.items))))

\* a flat sequence whose entries are None or registered identifiers
NoneOrRegistered(x) ==
    /\ IsList(x)
    /\ \A k \in 1..Len(x.items) :
          x.items[k] = None \/ (IsScalar(x.items[k]) /\ Registered(x.items[k]))

\* C18: idx2uid(None) returns None and raises nothing, unlike an identifier
\* that is not registered, which raises; a None entry of a sequence resolves
\* to None at its position and the other entries to their positions.
C18_NoneResolvesToNone ==
    call.op = "idx2uid" =>
        /\ arg.idx = None => call.ret = Ok(None)
        /\ (IsScalar(arg.idx) /\ ~Registered(arg.idx)) => ~call.ret.ok
        /\ NoneOrRegistered(arg.idx) =>
              call.ret = Ok(PyList([k \in 1..Len(arg.idx.items) |->
                                IF arg.idx.items[k] = None THEN None
                                ELSE Positions(<<arg.idx.items[k]>>)[1]]))

\* a sequence of a None and a registered identifier has been resolved
C18_Witness ==
    /\ call.op = "idx2uid"
    /\ NoneOrRegistered(arg.idx)
    /\ \E j, k \in 1..Len(arg.idx.items) :
          /\ arg.idx.items[j] = None
          /\ arg.idx.items[k] # None
          /\ call.ret.val.items[j] = None
          /\ call.ret.val.items[k] # None

\* C19: get with the single identifier None and allow_none false fails with
\* the missing-index error and returns no attribute data, for a list-stored
\* and for an array-stored attribute.
C19_SingleNoneFails ==
    (call.op = "get" /\ arg.idx = None /\ ~arg.allow_none) =>
        /\ ~call.ret.ok
        /\ call.ret.err = "KeyError: None not allowed"

\* what does hold: for a list-stored attribute the call fails, with the
\* TypeError of list[None]
C19_SingleNoneList ==
    (call.op = "get" /\ arg.idx = None /\ call.store = "list") =>
        /\ ~call.ret.ok
        /\ call.ret.err = "TypeError"

-----------------------------------------------------------------------------
(* Claims on the PTDF partition (SpecMat) *)

\* how often column c occurs in the sequence of columns s
Occurrences(c, s) == Cardinality({k \in 1..Len(s) : s[k] = c})

\* C4: for every placement of generators on buses the two partitions that
\* make returns hold every bus column of the full PTDF exactly once between
\* them: none in both, none twice in one, none missing.
C4_PartitionExact ==
    mat.op = "make" =>
        /\ mat.ret.ok
        /\ \A b \in 1..Len(mat.ret.PTDF) :
              Occurrences(mat.ret.PTDF[b], mat.ret.reg)
                 + Occurrences(mat.ret.PTDF[b], mat.ret.red) = 1

\* what does hold when no identifier is a float with a fraction: no bus
\* column is missing, none is in both partitions and none is twice among the
\* buses without generator
C4_NoneMissing ==
    (mat.op = "make" /\ \A k \in 1..Len(net.bus) : Key(net.bus[k]).t # "float") =>
        /\ mat.ret.ok
        /\ \A b \in 1..Len(mat.ret.PTDF) :
              /\ Occurrences(mat.ret.PTDF[b], mat.ret.reg)
                    + Occurrences(mat.ret.PTDF[b], mat.ret.red) >= 1
              /\ Occurrences(mat.ret.PTDF[b], mat.ret.red) <= 1
              /\ Occurrences(mat.ret.PTDF[b], mat.ret.red) = 1
                    => Occurrences(mat.ret.PTDF[b], mat.ret.reg) = 0

\* the position of bus identifier x in the bus table
BusPos(x) == CHOOSE j \in 1..Len(net.bus) : net.bus[j] = x

\* the positions of the buses that host no generator, in bus-table order
FreeBusPos ==
    SelectSeq([j \in 1..Len(net.bus) |-> j],
              LAMBDA j : \A k \in 1..Len(net.gen_bus) : net.gen_bus[k] # net.bus[j])

\* C15: column k of the generation-bearing partition is the full-PTDF column
\* of the bus the k-th generator is attached to, and column k of the other
\* partition is the full-PTDF column of the k-th bus, in bus-table order,
\* that hosts no generator; for integer, string and float bus identifiers.
C15_ColumnOrder ==
    mat.op = "make" =>
        /\ mat.ret.ok
        /\ mat.ret.reg = [k \in 1..Len(net.gen_bus) |->
                             mat.ret.PTDF[BusPos(net.gen_bus[k])]]
        /\ mat.ret.red = [k \in 1..Len(FreeBusPos) |-> mat.ret.PTDF[FreeBusPos[k]]]

\* what does hold: the same when no bus identifier is a float with a fraction
C15_ColumnOrderExact ==
    (mat.op = "make" /\ \A k \in 1..Len(net.bus) : Key(net.bus[k]).t # "float") =>
        /\ mat.ret.ok
        /\ mat.ret.reg = [k \in 1..Len(net.gen_bus) |->
                             mat.ret.PTDF[BusPos(net.gen_bus[k])]]
        /\ mat.ret.red = [k \in 1..Len(FreeBusPos) |-> mat.ret.PTDF[FreeBusPos[k]]]

-----------------------------------------------------------------------------
(* Claims on the Routine Pipeline (Spec) *)

\* the steps of the run looked at, without the warnings of unpack
Steps == SelectSeq(log, LAMBDA ev : ev # "warning")

IsPrefix(s, t) == Len(s) <= Len(t) /\ \A k \in 1..Len(s) : s[k] = t[k]

Unpacking == pc \in {"unpack_pv", "unpack_slack", "unpack_vars", "return"}

C1_Order ==
    /\ \A r \in Routines : exit_code[r] # None => is_setup[r]
    /\ cur # "None" =>
          /\ \/ IsPrefix(Steps, <<"setup", "solve", "exit_code", "unpack">>)
             \/ IsPrefix(Steps, <<"solve", "exit_code", "unpack">>)
          /\ Len(Steps) > 0 => is_setup[cur]
          /\ (Unpacking \/ outcome.kind = "returned") =>
                Cardinality({k \in 1..Len(Steps) : Steps[k] = "unpack"}) = 1

\* C1: in every run() the steps are, in this order, setup() only when the
\* routine is not yet set up, solve(), the assignment of exit_code, and
\* unpack() exactly once, whatever the success flag; exit_code is never
\* assigned for a routine that is not set up.
C1_RunOrder ==
    /\ []C1_Order
    /\ [][log' = Append(log, "setup") => ~is_setup[cur]]_vars

\* a run of a routine already set up has returned with a failure reported
C1_Witness ==
    /\ outcome.kind = "returned"
    /\ exit_code[cur] = PyInt(1)
    /\ Steps = <<"solve", "exit_code", "unpack">>

\* the attributes unpack writes
DeviceKeys == {<<"Bus", "v">>, <<"Bus", "a">>, <<"PV", "p">>, <<"PV", "q">>,
               <<"Slack", "p">>, <<"Slack", "q">>}

\* the values of result rs for attribute key: bus columns VM and VA (in
\* radians), generator columns PG and QG per unit, Slack rows first
SolverValue(rs, key) ==
    LET col == CASE key[2] = "v" -> "VM" [] key[2] = "a" -> "VA"
                 [] key[2] = "p" -> "PG" [] key[2] = "q" -> "QG"
    IN  CASE key[1] = "Bus" ->
               [i \in 1..NBus |-> IF col = "VA" THEN rs.bus[i][col] * deg2rad
                                  ELSE rs.bus[i][col]]
          [] key[1] = "Slack" ->
               [j \in 1..NSlack |-> rs.gen[j][col] \div rs.baseMVA]
          [] key[1] = "PV" ->
               [j \in 1..NPV |-> rs.gen[NSlack + j][col] \div rs.baseMVA]

\* C2: once exit_code is assigned it is 0 or 1, and 0 exactly when the
\* success flag (0/1 or False/True) is set; after unpack the Bus, PV and
\* Slack arrays hold the values the solver returned, also when it reported
\* failure.
C2_ExitAndArrays ==
    /\ (pc = "unpack_bus" \/ Unpacking) =>
          /\ exit_code[cur] \in {PyInt(0), PyInt(1)}
          /\ exit_code[cur] = PyInt(0) <=> res.success.v = 1
    /\ pc \in {"unpack_vars", "return"} =>
          \A key \in DeviceKeys : heap[attr[key]] = SolverValue(res, key)
    /\ outcome.kind = "returned" =>
          /\ exit_code[cur] \in {PyInt(0), PyInt(1)}
          /\ cur = "ACOPF" => outcome.val = exit_code[cur]
          /\ cur = "DCPF" => outcome.val = PyBool(1 - exit_code[cur].v)

\* a run whose solver reported failure has unpacked: exit code 1, and every
\* device array differs from what it held before the run
C2_Witness ==
    /\ pc = "return"
    /\ res.success.v = 0
    /\ exit_code[cur] = PyInt(1)
    /\ \A key \in DeviceKeys : heap[attr[key]] # heap[pre[key]]

\* the owner of variable d cannot be resolved: no owner name, a name of
\* nothing on the system, or of an object that is no collection and no group
Unresolvable(d) ==
    d.owner_name = "None" \/ SysKind(d.owner_name) \notin {"model", "group"}

\* C3: unpack never aborts on a declared variable whose owner cannot be
\* resolved: the variable is skipped with a warning, every other declared
\* variable is written, and the recent-routine cursor is updated.
C3_NeverAborts ==
    /\ (outcome.kind = "raised" /\ outcome.at = "unpack") =>
          ~Unresolvable(decl[cur][vk - 1])
    /\ (pc = "unpack_vars" /\ vk > 1 /\ Unresolvable(decl[cur][vk - 1])) =>
          log[Len(log)] = "warning"

\* what does hold: an owner that has a class_name but neither group nor
\* get_idx is skipped with a warning, and unpack goes on to the end
C3_WarnedOwner ==
    (pc = "return" /\ \E k \in 1..Len(decl[cur]) :
                         SysKind(decl[cur][k].owner_name) = "routine") =>
        /\ recent = cur
        /\ \E k \in 1..Len(log) : log[k] = "warning"
        /\ \A k \in 1..Len(decl[cur]) :
              ~Unresolvable(decl[cur][k]) /\ decl[cur][k].src # "None"
                 => rvar[cur][decl[cur][k].name] # None

\* C5: unpack writes in place: once unpack is done each of Bus.v, Bus.a, PV.p,
\* PV.q, Slack.p and Slack.q is bound to the array object it was bound to when
\* the run began, and that array holds the values written.
C5_InPlace ==
    pc = "return" =>
        \A key \in DeviceKeys :
            /\ attr[key] = pre[key]
            /\ heap[pre[key]] = shadow[key]

\* what does hold: the attribute itself holds the values written
C5_AttributeHoldsWritten ==
    \A key \in AttrKeys : heap[attr[key]] = shadow[key]

\* a reference bound to one collection attribute, without explicit value
BoundSingle(p) ==
    /\ p.owner # "None"
    /\ ~p.is_set
    /\ ~p.is_group
    /\ <<p.owner, p.src>> \in AttrKeys

\* C6: after any write to a collection attribute, by set or by unpack, every
\* reference bound to that attribute without explicit value reads the values
\* written, and two references bound to the same attribute read equal values.
C6_ReadsWritten ==
    LET refs == {p \in {RParamOf(r, n) : r \in Routines, n \in ParamNames} :
                    BoundSingle(p)}
    IN  /\ \A p \in refs : RParam_v(p) = Ok(PyList(shadow[<<p.owner, p.src>>]))
        /\ \A p1 \in refs, p2 \in refs :
              (p1.owner = p2.owner /\ p1.src = p2.src) => RParam_v(p1) = RParam_v(p2)

\* PV.p was written by unpack and then by set, and the references p and pg0
\* of two routines read the entry set
C6_Witness ==
    /\ is_setup["ACOPF"] /\ is_setup["DCPF"]
    /\ recent # "None"
    /\ pc = "idle"
    /\ shadow[<<"PV", "p">>][1] = 77
    /\ BoundSingle(RParamOf("ACOPF", "p"))
    /\ BoundSingle(RParamOf("DCPF", "pg0"))
    /\ RParam_v(RParamOf("ACOPF", "p")).val.items[1] = 77
    /\ RParam_v(RParamOf("DCPF", "pg0")).val.items[1] = 77

\* bool(x) of a number or a bool
Truthy(x) == x.v # 0

\* C11: what run() returns is truthy exactly when the solver reported success
\* (exit_code 0) and falsy exactly when it reported failure (exit_code 1).
C11_ReturnAgrees ==
    outcome.kind = "returned" =>
        /\ exit_code[cur] = PyInt(0) => Truthy(outcome.val)
        /\ exit_code[cur] = PyInt(1) => ~Truthy(outcome.val)

\* what does hold: DCPF returns True / False with the exit code, ACOPF
\* returns the exit code itself
C11_ReturnByRoutine ==
    outcome.kind = "returned" =>
        /\ cur = "DCPF" => (Truthy(outcome.val) <=> exit_code[cur] = PyInt(0))
        /\ cur = "ACOPF" => outcome.val = exit_code[cur]

\* C12: over any sequence of run() calls setup() is invoked only while
\* is_setup is false; a routine once set up stays set up after a solved and
\* after a failed run, every later run() goes straight to solve(), and the
\* structures bound by setup are the same in both runs.
C12_SetupOnce ==
    /\ [][\A r \in Routines : is_setup[r] => is_setup'[r]]_vars
    /\ [][(pc = "idle" /\ pc' # "idle") =>
             /\ log' = <<>>
             /\ is_setup[cur'] => pc' = "solve"
             /\ ~is_setup[cur'] => pc' = "setup"]_vars
    /\ [][pc' = "setup" => ~is_setup[cur']]_vars
    /\ [][\A r \in Routines, n \in ParamNames :
             is_setup[r] => RParamOf(r, n)' = RParamOf(r, n)]_vars

\* a routine whose last run failed is run again and is at its exit-code step
\* with solve() as its only step so far
C12_Witness ==
    /\ pc = "exit"
    /\ Steps = <<"solve">>
    /\ is_setup[cur]
    /\ exit_code[cur] = PyInt(1)

\* C13: the recent-routine cursor is last-write-wins: after a completed
\* run() it is the routine whose run() finished last; it is written only at
\* the end of unpack(), when every device array and every declared variable
\* has been dealt with, and nothing of them is written after it.
C13_RecentLastWins ==
    /\ [](outcome.kind = "returned" => recent = cur)
    /\ [][recent' # recent =>
             /\ pc = "unpack_vars" /\ vk > Len(decl[cur])
             /\ "unpack" \in {log[k] : k \in 1..Len(log)}
             /\ recent' = cur
             /\ pc' = "return"]_vars
    /\ [][pc = "return" => UNCHANGED <<shadow, rvar, recent>>]_vars

\* DCPF has returned after ACOPF had completed a run: the cursor is DCPF
C13_Witness ==
    /\ outcome.kind = "returned"
    /\ cur = "DCPF"
    /\ recent = "DCPF"
    /\ objv["ACOPF"] # None

\* C14: solve() leaves every device array, every routine variable,
\* exit_code, exec_time, is_setup and the recent-routine cursor as they are;
\* they are written by the other steps of run(), by unpack() and by set only.
C14_SolveWritesNothing ==
    /\ [][pc = "solve" =>
             UNCHANGED <<heap, attr, shadow, rvar, objv, exit_code, exec_time,
                         is_setup, recent>>]_vars
    /\ [][(exit_code' # exit_code \/ exec_time' # exec_time) => pc = "exit"]_vars
    /\ [][is_setup' # is_setup => pc = "setup"]_vars
    /\ [][(rvar' # rvar \/ objv' # objv \/ recent' # recent) => pc = "unpack_vars"]_vars
    /\ [][shadow' # shadow =>
             pc \in {"idle", "unpack_bus", "unpack_pv", "unpack_slack"}]_vars

\* solve() has returned a result in a run that follows a completed run
C14_Witness ==
    /\ pc = "exit"
    /\ res # None
    /\ recent # "None"
    /\ exec_time[cur] # None

\* column col of all generator rows of the result, per unit
GenPerUnit(col) == [j \in 1..Len(res.gen) |-> res.gen[j][col] \div res.baseMVA]

\* C16: unpack splits the generator rows in solver output order: the first
\* Slack.n rows go to Slack and the remaining rows to PV, so that Slack.p
\* followed by PV.p is the active-power column divided by the base power of
\* the result (likewise q), with Slack.n entries for Slack and PV.n for PV;
\* the bus voltage magnitude is written unscaled.
C16_GeneratorSplit ==
    pc \in {"unpack_vars", "return"} =>
        /\ shadow[<<"Slack", "p">>] \o shadow[<<"PV", "p">>] = GenPerUnit("PG")
        /\ shadow[<<"Slack", "q">>] \o shadow[<<"PV", "q">>] = GenPerUnit("QG")
        /\ \A a \in {"p", "q"} :
              /\ Len(heap[attr[<<"Slack", a>>]]) = Len(ModelIdx("Slack"))
              /\ Len(heap[attr[<<"PV", a>>]]) = Len(ModelIdx("PV"))
              /\ heap[attr[<<"Slack", a>>]] = shadow[<<"Slack", a>>]
              /\ heap[attr[<<"PV", a>>]] = shadow[<<"PV", a>>]
        /\ heap[attr[<<"Bus", "v">>]] = [i \in 1..Len(res.bus) |-> res.bus[i].VM]

\* unpack has written the generators from a result whose base power is not 1
C16_Witness ==
    /\ pc = "unpack_vars"
    /\ res.baseMVA > 1
    /\ Len(res.gen) = NSlack + NPV
    /\ heap[attr[<<"PV", "p">>]][1] * res.baseMVA = res.gen[NSlack + 1].PG

\* the values of attribute a of the members of group g, in group order
GroupValues(g, a) ==
    Concat([k \in 1..Len(GroupMembers(g)) |-> shadow[<<GroupMembers(g)[k], a>>]])

\* the owner's current values of attribute a, in the owner's identifier order
OwnerValues(o, a) ==
    IF SysKind(o) = "group" THEN GroupValues(o, a) ELSE shadow[<<o, a>>]

\* variable d has a source attribute and an owner that holds it
Sourced(d) ==
    /\ ~Unresolvable(d)
    /\ d.src # "None"
    /\ IF SysKind(d.owner_name) = "group"
       THEN \A k \in 1..Len(GroupMembers(d.owner_name)) :
               <<GroupMembers(d.owner_name)[k], d.src>> \in AttrKeys
       ELSE <<d.owner_name, d.src>> \in AttrKeys

\* C20: after unpack every declared variable with a source attribute and a
\* resolvable owner holds one entry per device of its owner, the owner's
\* current value of the attribute, in the owner's identifier order: for a
\* group, and for a single collection whose group holds other collections.
C20_VariablesHoldOwnerValues ==
    /\ (outcome.kind = "raised" /\ outcome.at = "unpack") =>
          ~Sourced(decl[cur][vk - 1])
    /\ pc = "return" =>
          \A k \in 1..Len(decl[cur]) :
              Sourced(decl[cur][k]) =>
                  rvar[cur][decl[cur][k].name]
                     = PyList(OwnerValues(decl[cur][k].owner_name, decl[cur][k].src))

\* what does hold: every unpack that reaches its end has written them so;
\* it does with group owners and with a collection alone in its group
C20_GroupOwners ==
    pc = "return" =>
        \A k \in 1..Len(decl[cur]) :
            Sourced(decl[cur][k]) =>
                rvar[cur][decl[cur][k].name]
                   = PyList(OwnerValues(decl[cur][k].owner_name, decl[cur][k].src))

\* the run looked at has ended with an exception of solve()
SolveRaised == outcome.kind = "raised" /\ outcome.at = "solve"

\* C22: if solve() raises, run() ends there: solve() is not tried again and
\* unpack() is not called; exit_code and exec_time keep what the run before
\* left (or stay unset), the device arrays, the routine variables and the
\* recent-routine cursor are as they were when run() was called, and
\* is_setup is true.
C22_SolveRaises ==
    /\ [](SolveRaised =>
             /\ Steps \in {<<"solve">>, <<"setup", "solve">>}
             /\ pc = "idle"
             /\ is_setup[cur])
    /\ [][((pc = "idle" /\ pc' # "idle") \/ pc \in {"setup", "solve"}) =>
             UNCHANGED <<exit_code, exec_time, shadow, rvar, objv, recent>>]_vars
    /\ [][pc = "solve" /\ SolveRaised' =>
             /\ pc' = "idle"
             /\ UNCHANGED <<heap, attr, res>>]_vars

\* solve() has raised in the run that follows a successful run of the routine
C22_Witness ==
    /\ SolveRaised
    /\ Steps = <<"solve">>
    /\ exit_code[cur] = PyInt(0)
    /\ exec_time[cur] # None
    /\ recent = cur

\* the exit code run() assigns for the result it holds
CodeOfResult == IF res.success.v = 1 THEN PyInt(0) ELSE PyInt(1)

\* unpack is at the variables: the device arrays hold the values of the
\* result, and every variable visited that has a source and an owner holding
\* it has the owner's values
AtVariables ==
    /\ \A key \in DeviceKeys : shadow[key] = SolverValue(res, key)
    /\ \A k \in 1..(vk - 1) :
          Sourced(decl[cur][k]) =>
              rvar[cur][decl[cur][k].name]
                 = PyList(OwnerValues(decl[cur][k].owner_name, decl[cur][k].src))
    /\ exit_code[cur] = CodeOfResult

\* C23: unpack is not atomic: it writes the Bus, then the PV, then the Slack
\* arrays before it visits a variable, and visits the variables in the order
\* of their declaration; when a visit raises, the device arrays and the
\* variables visited before keep their new values, the later variables keep
\* their old values, the objective and the recent-routine cursor are not
\* updated, and exit_code holds the value of this run.
C23_PartialUnpack ==
    /\ [](pc = "unpack_pv" =>
             \A a \in {"v", "a"} : shadow[<<"Bus", a>>] = SolverValue(res, <<"Bus", a>>))
    /\ [](pc = "unpack_slack" =>
             \A key \in {<<"Bus", "v">>, <<"Bus", "a">>, <<"PV", "p">>, <<"PV", "q">>} :
                 shadow[key] = SolverValue(res, key))
    /\ [](pc = "unpack_vars" => AtVariables)
    /\ [][(pc \in {"unpack_bus", "unpack_pv", "unpack_slack"}) => UNCHANGED rvar]_vars
    /\ [][pc = "unpack_vars" =>
             /\ vk' = vk + 1 \/ vk > Len(decl[cur])
             /\ \A r \in Routines, n \in VarNames :
                   rvar'[r][n] # rvar[r][n] =>
                      r = cur /\ vk <= Len(decl[cur]) /\ n = decl[cur][vk].name]_vars
    /\ [][(pc = "unpack_vars" /\ outcome'.kind = "raised") =>
             /\ UNCHANGED <<shadow, rvar, objv, recent, exit_code>>
             /\ \A key \in AttrKeys : heap'[attr'[key]] = shadow[key]
             /\ pc' = "idle"]_vars

\* a visit has raised after a variable was written and before another was
\* visited: the first holds the owner's values, the other is unset, the
\* device arrays hold values of the solver, the cursor is not this routine
C23_Witness ==
    /\ outcome.kind = "raised" /\ outcome.at = "unpack"
    /\ vk = 3
    /\ rvar[cur][decl[cur][1].name] = PyList(shadow[<<"Bus", "a">>])
    /\ rvar[cur][decl[cur][3].name] = None
    /\ shadow[<<"Bus", "v">>] # InitArray(<<"Bus", "v">>)
    /\ exit_code[cur] # None
    /\ objv[cur] = None
    /\ recent # cur

-----------------------------------------------------------------------------
(* Claims on the Parameter Reference (SpecParam) *)

\* the source attribute the arguments name
SrcOf(a) == IF a.src = "None" THEN a.name ELSE a.src

\* C10: a read of a reference returns the explicit value given at
\* construction if there is one, whatever owner and is_group are; otherwise
\* the group-aggregated values if the reference is bound to a group; otherwise
\* the source attribute of the owner collection; the source attribute is the
\* reference's own name when src was not given.
C10_Priority ==
    call.op = "RParam.v" =>
        IF arg.v # None
        THEN call.ret = Ok(arg.v)
        ELSE IF Param.is_group
        THEN call.ret = Ok(PyList(GroupValues(arg.owner_name, SrcOf(arg))))
        ELSE IF Param.owner # "None" /\ <<arg.owner_name, SrcOf(arg)>> \in AttrKeys
        THEN call.ret = Ok(PyList(shadow[<<arg.owner_name, SrcOf(arg)>>]))
        ELSE ~call.ret.ok

\* a reference with an explicit value, bound to a group, was read
C10_Witness ==
    /\ call.op = "RParam.v"
    /\ arg.v # None
    /\ Param.is_group
    /\ arg.src = "None"
    /\ call.ret = Ok(arg.v)

-----------------------------------------------------------------------------
(* Claims on the initial guess of UC (SpecUC) *)

Online(gs) == \A i \in 1..Len(gs) : gs[i].u = 1

TurnedOff(before, after) == {i \in 1..Len(before) : before[i].u = 1 /\ after[i].u = 0}

\* what one call made of the fleet `before`
GuessedFrom(before, after) ==
    /\ Len(after) = Len(before)
    /\ \A i \in 1..Len(before) : [after[i] EXCEPT !.u = before[i].u] = before[i]
    /\ IF ~Online(before)
       THEN after = before
       ELSE LET off == TurnedOff(before, after)
                n   == Len(before)
            IN  /\ 10 * Cardinality(off) <= 3 * n
                /\ 10 * (Cardinality(off) + 1) > 3 * n
                /\ \A i \in off, j \in (1..n) \ off :
                      4 * before[i].c2 + 3 * before[i].c1 + 2 * before[i].c0
                         + before[i].Sn
                      <= 4 * before[j].c2 + 3 * before[j].c1 + 2 * before[j].c0
                            + before[j].Sn
                /\ \A j \in (1..n) \ off : after[j].u = before[j].u

\* C21: _initial_guess writes nothing if a PV generator is offline; otherwise
\* it sets u to 0 for exactly floor(0.3 * n) generators, those with the
\* smallest 0.4*c2 + 0.3*c1 + 0.2*c0 + 0.1*Sn, and leaves every other u as it
\* is; it returns True either way; a second call leaves what the first left;
\* UC.init runs it before the inherited init.
C21_InitialGuess ==
    /\ \A k \in 1..Len(uc.rets) :
          /\ GuessedFrom(uc.hist[k], uc.hist[k + 1])
          /\ uc.rets[k] = PyBool(1)
    /\ Len(uc.hist) >= 3 => uc.hist[3] = uc.hist[2]
    /\ gen = uc.hist[Len(uc.hist)]
    /\ \A k \in 1..Len(uc.steps) :
          uc.steps[k] = "init" => (k > 1 /\ uc.steps[k - 1] = "_initial_guess")

\* seven generators, all online, have been guessed twice: two of them are
\* offline after the first call and the same two after the second
C21_Witness ==
    /\ Len(uc.hist) = 3
    /\ Len(gen) = 7
    /\ Online(uc.hist[1])
    /\ Cardinality(TurnedOff(uc.hist[1], uc.hist[2])) = 2
    /\ uc.hist[3] = uc.hist[2]
    /\ \E i, j \in 1..Len(gen) : uc.hist[1][i].c2 # uc.hist[1][j].c2
    /\ uc.steps = <<"_initial_guess", "init">>

=============================================================================
